---- MODULE Spec2Model ----
(***************************************************************************)
(* PredNetModel (src/model.py): construction, the forward call, the        *)
(* training step and the evaluation step, with the loss aggregator         *)
(* (timeDense -> flatten -> dense) and the metric bookkeeping.             *)
(*                                                                         *)
(* Tensors are modelled over small integers: an error output is            *)
(* all_error[b][t][l], one number per batch element, timestep and layer.   *)
(* Floating-point rounding is not modelled.                                *)
(***************************************************************************)
EXTENDS Integers, Sequences, FiniteSets, TLC

\* ---------------------------------------------------------------- bounds
MaxLayers == 2
MaxTime == 2
MaxUpdates == 2

Pixels == {0, 1}
ErrVals == {0, 1}
WeightVals == {0, 1}
ParamVals == {0, 1}
StackVals == {1, 2}
FiltVals == {3}

VARIABLES
  self,       \* attributes assigned by __init__ ("new" before construction)
  theta,      \* trainable parameters of the cells, one per Layer Cell
  timeDense,  \* [kernel, bias, trainable] of the layer-weighting projection
  dense,      \* [kernel, bias, trainable] of the time-weighting projection
  states,     \* recurrent states kept by the RNN between calls (stateful only)
  metrics,    \* metric name -> [total, count]
  pc,         \* "new", "idle", or the statement a running step is at
  loc,        \* local variables of the running step
  ret         \* what the last call returned or raised

vars == <<self, theta, timeDense, dense, states, metrics, pc, loc, ret>>

\* ---------------------------------------------------------------- helpers
Min2(a, b) == IF a < b THEN a ELSE b

Abs(a) == IF a < 0 THEN -a ELSE a

Relu(a) == IF a > 0 THEN a ELSE 0

RECURSIVE SumSeq(_)
SumSeq(s) == IF s = <<>> THEN 0 ELSE Head(s) + SumSeq(Tail(s))

RECURSIVE ConcatAll(_)
ConcatAll(ss) == IF ss = <<>> THEN <<>> ELSE Head(ss) \o ConcatAll(Tail(ss))

SeqsOf(S, n) == [1..n -> S]

\* the function f on 1..n as a tuple of its values
RECURSIVE Tup(_, _)
Tup(n, f) == IF n = 0 THEN <<>> ELSE Append(Tup(n - 1, f), f[n])

\* the non-empty sequences over S of length at most n
SeqsUpTo(S, n) == UNION {SeqsOf(S, k) : k \in 1..n}

NoLocals == [op |-> "none"]

NoReturn == [kind |-> "none"]

\* ---------------------------------------------------------------- __init__
\* tf.keras.layers.Dense(1, trainable=False) inside TimeDistributed(..., trainable=False)
TimeDenseTrainable == FALSE

\* variant: the Dense left trainable, as Keras builds it by default
DenseTrainableOn == TRUE

\* tf.keras.layers.Dense(1, ..., trainable=False)
DenseTrainable == FALSE

\* variant: the RNN built with stateful = True
PredNetStatefulOn == TRUE

\* PredNet(cell = self.cells, return_sequences = True): no stateful argument
PredNetStateful == FALSE

\* zip(...) stops at the shortest of its arguments
ZipLen(a, b, c, d, e) ==
  Min2(Len(a), Min2(Len(b), Min2(Len(c), Min2(Len(d), Len(e)))))

PredNet_Cell(stack_size, R_stack_size, A_filt_size, Ahat_filt_size, R_filt_size) ==
  [stack_size |-> stack_size, R_stack_size |-> R_stack_size,
   A_filt_size |-> A_filt_size, Ahat_filt_size |-> Ahat_filt_size,
   R_filt_size |-> R_filt_size]

\* the attributes __init__ assigns
InitAttrs(stack_sizes, R_stack_sizes, A_filt_sizes, Ahat_filt_sizes, R_filt_sizes, layer_loss_weights, time_loss_weights) ==
  [stack_sizes |-> stack_sizes,
   R_stack_sizes |-> R_stack_sizes,
   A_filt_sizes |-> A_filt_sizes,
   Ahat_filt_sizes |-> Ahat_filt_sizes,
   R_filt_sizes |-> R_filt_sizes,
   cells |-> [i \in 1..ZipLen(stack_sizes, R_stack_sizes, A_filt_sizes,
                              Ahat_filt_sizes, R_filt_sizes) |->
                PredNet_Cell(stack_sizes[i], R_stack_sizes[i], A_filt_sizes[i],
                             Ahat_filt_sizes[i], R_filt_sizes[i])],
   layer_loss_weights |-> layer_loss_weights,
   time_loss_weights |-> time_loss_weights,
   stateful |-> PredNetStateful]

\* weights=[self.layer_loss_weights, np.zeros(1)]
InitTimeDense(layer_loss_weights) ==
  [kernel |-> layer_loss_weights, bias |-> 0, trainable |-> TimeDenseTrainable]

\* weights=[self.time_loss_weights, np.zeros(1)]
InitDense(time_loss_weights) ==
  [kernel |-> time_loss_weights, bias |-> 0, trainable |-> DenseTrainable]

ZeroState(n) == Tup(n, [l \in 1..n |-> [R |-> 0, E |-> <<0, 0>>]])

\* PredNetModel(stack_sizes, ..., time_loss_weights)
Construct ==
  /\ pc = "new"
  /\ \E ss \in SeqsUpTo(StackVals, MaxLayers), rs \in SeqsUpTo(StackVals, MaxLayers),
        af \in SeqsUpTo(FiltVals, MaxLayers), hf \in SeqsUpTo(FiltVals, MaxLayers),
        rf \in SeqsUpTo(FiltVals, MaxLayers),
        llw \in SeqsUpTo(WeightVals, MaxLayers), tlw \in SeqsOf(WeightVals, 1) :
       /\ self' = InitAttrs(ss, rs, af, hf, rf, llw, tlw)
       /\ timeDense' = InitTimeDense(llw)
       /\ dense' = InitDense(tlw)
       /\ \E th \in SeqsOf(ParamVals, ZipLen(ss, rs, af, hf, rf)) : theta' = th
  /\ states' = <<>>
  /\ metrics' = <<>>
  /\ pc' = "idle"
  /\ UNCHANGED <<loc, ret>>

InitNew ==
  /\ self = "new"
  /\ theta = <<>>
  /\ timeDense = "new"
  /\ dense = "new"
  /\ states = <<>>
  /\ metrics = <<>>
  /\ pc = "new"
  /\ loc = NoLocals
  /\ ret = NoReturn

NextNew == Construct

SpecNew == InitNew /\ [][NextNew]_vars

\* ---------------------------------------------------------------- PredNet (RNN)
\* The recurrent core lives in the PredNet module, which model.py imports.
\* One number stands for each tensor and one parameter for each cell's kernels.
RMax == 1

Pooled(E) == E[1] + E[2]

\* top-down pass, layers l..L: R_l from the previous R_l, the previous E_l and the
\* new R_{l+1} (nothing comes down into the top layer)
RECURSIVE TopDown(_, _, _)
TopDown(th, st, l) ==
  IF l > Len(st)
    THEN <<>>
    ELSE LET above == TopDown(th, st, l + 1)
             up == IF above = <<>> THEN 0 ELSE above[1]
         IN  <<Min2(RMax, Relu(th[l] * (st[l].R + Pooled(st[l].E) + up)))>> \o above

\* the prediction, capped at 1 for the bottom layer
Ahat(th, R, l) ==
  IF l = 1 THEN Min2(Relu(th[l] * R[l]), 1) ELSE Relu(th[l] * R[l])

\* bottom-up pass, layers 1..l: the target is the frame at the bottom and the error
\* of the layer below elsewhere; the error is split into its two rectified halves
RECURSIVE BottomUp(_, _, _, _)
BottomUp(th, R, a, l) ==
  IF l = 0
    THEN <<>>
    ELSE LET below == BottomUp(th, R, a, l - 1)
             A == IF l = 1 THEN a ELSE th[l] * Pooled(below[l - 1])
         IN  Append(below, <<Relu(A - Ahat(th, R, l)), Relu(Ahat(th, R, l) - A)>>)

\* one timestep of the cell stack: the new states, and the pooled errors of all
\* layers (training) or the bottom layer's prediction
CellStep(th, st, a, training) ==
  LET R == TopDown(th, st, 1)
      E == BottomUp(th, R, a, Len(st))
  IN  [state  |-> Tup(Len(st), [l \in 1..Len(st) |-> [R |-> R[l], E |-> E[l]]]),
       output |-> IF training
                    THEN Tup(Len(st), [l \in 1..Len(st) |-> Pooled(E[l])])
                    ELSE <<Ahat(th, R, 1)>>]

\* the cells unrolled over the frames of one example (return_sequences = True)
RECURSIVE Unroll(_, _, _, _)
Unroll(th, st, frames, training) ==
  IF frames = <<>>
    THEN [out |-> <<>>, final |-> st]
    ELSE LET s == CellStep(th, st, Head(frames), training)
             r == Unroll(th, s.state, Tail(frames), training)
         IN  [out |-> <<s.output>> \o r.out, final |-> r.final]

\* the state a call starts from: zeros unless the RNN is stateful and has run
InitialState(stateful, kept, b, n) ==
  IF stateful /\ b \in DOMAIN kept THEN kept[b] ELSE ZeroState(n)

\* self.prednet(input, training=training)
PredNet(th, stateful, kept, x, training) ==
  Tup(Len(x), [b \in 1..Len(x) |->
                Unroll(th, InitialState(stateful, kept, b, Len(th)), x[b], training)])

PredNetOut(r) == [b \in 1..Len(r) |-> r[b].out]

PredNetFinal(r) == [b \in 1..Len(r) |-> r[b].final]

\* the states the RNN keeps after a call
KeptStates(stateful, kept, r) == IF stateful THEN PredNetFinal(r) ELSE kept

\* ---------------------------------------------------------------- layers
Dot(k, v) == SumSeq([i \in 1..Len(v) |-> k[i] * v[i]])

\* variant: a Dense that normalises by the number of its inputs
DenseCallAveraging(layer, v) == <<(Dot(layer.kernel, v) + layer.bias) \div Len(v)>>

\* Dense(1): kernel . v + bias, a vector of one unit
DenseCall(layer, v) == <<Dot(layer.kernel, v) + layer.bias>>

\* variant: a layer weighting that also depends on the layer's position
TimeDenseCallPositional(layer, e) ==
  [t \in 1..Len(e) |-> <<SumSeq([l \in 1..Len(e[t]) |-> l * layer.kernel[l] * e[t][l]])
                          + layer.bias>>]

\* TimeDistributed(Dense(1)): the Dense applied to every timestep
TimeDenseCall(layer, e) == Tup(Len(e), [t \in 1..Len(e) |-> DenseCall(layer, e[t])])

\* Flatten: everything after the batch axis in one vector
FlattenCall(e) == ConcatAll(e)

\* self.dense(self.flatten(self.timeDense(e))) for one batch element
Aggregate(td, dn, e) == DenseCall(dn, FlattenCall(TimeDenseCall(td, e)))

\* the loss and the secondary metric configured by compile(): mean absolute error
MeanAbsError(y, y_pred) ==
  SumSeq([b \in 1..Len(y) |-> Abs(y[b] - y_pred[b][1])]) \div Len(y)

compute_loss(y, y_pred) == MeanAbsError(y, y_pred)

\* Metric.update_state and Metric.result of a mean-tracking metric
UpdateState(m, v) == [total |-> m.total + v, count |-> m.count + 1]

Result(m) == IF m.count = 0 THEN 0 ELSE m.total \div m.count

\* self.trainable_variables: <<layer, index>>
trainable_variables ==
  {<<"prednet", l>> : l \in 1..Len(theta)}
    \cup (IF timeDense.trainable THEN {<<"timeDense", 1>>, <<"timeDense", 2>>} ELSE {})
    \cup (IF dense.trainable THEN {<<"dense", 1>>, <<"dense", 2>>} ELSE {})

\* ---------------------------------------------------------------- inputs
Examples(T) == SeqsOf(Pixels, T)

\* the negative image of an example
Negative(e) == [t \in 1..Len(e) |-> 1 - e[t]]

\* input batches, (batch, timesteps) frames: one example, or an example and its
\* negative image
Batches(T) ==
  {<<e>> : e \in Examples(T)} \cup {<<e, Negative(e)>> : e \in Examples(T)}

\* targets: one value per batch element (all zero by convention, or all one)
Targets(B) == {[b \in 1..B |-> v] : v \in Pixels}

TimeSteps == Len(self.time_loss_weights)

Entered(op, x, target) ==
  [op |-> op, x |-> x, target |-> target, theta0 |-> theta,
   all_error |-> <<>>, time_error |-> <<>>, flattened |-> <<>>,
   prediction_error |-> <<>>, loss |-> -1, gradients |-> <<>>,
   updated |-> [n \in DOMAIN metrics |-> <<>>]]

\* ---------------------------------------------------------------- call
\* x = self.prednet(input, training=training)
CallPredNet ==
  /\ pc = "idle"
  /\ \E x \in Batches(TimeSteps), training \in BOOLEAN :
       LET r == PredNet(theta, self.stateful, states, x, training)
       IN  /\ states' = KeptStates(self.stateful, states, r)
           /\ loc' = [op |-> "call", input |-> x, training |-> training,
                      theta0 |-> theta, x |-> PredNetOut(r)]
  /\ pc' = "call_return"
  /\ ret' = NoReturn
  /\ UNCHANGED <<self, theta, timeDense, dense, metrics>>

\* return x (the tensor goes to the caller; ret records that the call returned)
CallReturn ==
  /\ pc = "call_return"
  /\ ret' = [kind |-> "return", op |-> "call"]
  /\ pc' = "idle"
  /\ loc' = NoLocals
  /\ UNCHANGED <<self, theta, timeDense, dense, states, metrics>>

call == CallPredNet \/ CallReturn

\* ---------------------------------------------------------------- train_step
\* x, target = data; all_error = self(x, training = True)
TrainForward ==
  /\ pc = "idle"
  /\ \A n \in DOMAIN metrics : metrics[n].count < MaxUpdates
  /\ \E x \in Batches(TimeSteps) : \E target \in Targets(Len(x)) :
       LET r == PredNet(theta, self.stateful, states, x, TRUE)
       IN  /\ states' = KeptStates(self.stateful, states, r)
           /\ loc' = [Entered("train_step", x, target) EXCEPT
                        !.all_error = PredNetOut(r)]
  /\ pc' = "train_timeDense"
  /\ ret' = NoReturn
  /\ UNCHANGED <<self, theta, timeDense, dense, metrics>>

\* time_error = self.timeDense(all_error)
TrainTimeDense ==
  /\ pc = "train_timeDense"
  /\ loc' = [loc EXCEPT !.time_error =
               [b \in 1..Len(loc.all_error) |-> TimeDenseCall(timeDense, loc.all_error[b])]]
  /\ pc' = "train_flatten"
  /\ UNCHANGED <<self, theta, timeDense, dense, states, metrics, ret>>

\* flattened = self.flatten(time_error)
TrainFlatten ==
  /\ pc = "train_flatten"
  /\ loc' = [loc EXCEPT !.flattened =
               [b \in 1..Len(loc.time_error) |-> FlattenCall(loc.time_error[b])]]
  /\ pc' = "train_dense"
  /\ UNCHANGED <<self, theta, timeDense, dense, states, metrics, ret>>

\* variant: the loss is not computed before the gradient
TrainDenseSkipping ==
  /\ pc = "train_dense"
  /\ loc' = [loc EXCEPT !.prediction_error =
               [b \in 1..Len(loc.flattened) |-> DenseCall(dense, loc.flattened[b])]]
  /\ pc' = "train_gradient"
  /\ UNCHANGED <<self, theta, timeDense, dense, states, metrics, ret>>

\* prediction_error = self.dense(flattened)
TrainDense ==
  /\ pc = "train_dense"
  /\ loc' = [loc EXCEPT !.prediction_error =
               [b \in 1..Len(loc.flattened) |-> DenseCall(dense, loc.flattened[b])]]
  /\ pc' = "train_compute_loss"
  /\ UNCHANGED <<self, theta, timeDense, dense, states, metrics, ret>>

\* loss = self.compute_loss(y = target, y_pred = prediction_error)
TrainComputeLoss ==
  /\ pc = "train_compute_loss"
  /\ loc' = [loc EXCEPT !.loss = compute_loss(loc.target, loc.prediction_error)]
  /\ pc' = "train_gradient"
  /\ UNCHANGED <<self, theta, timeDense, dense, states, metrics, ret>>

\* a variable moved by d: every entry of a kernel, a bias, a cell's parameter
Moved(layer, name, v, d) ==
  [layer EXCEPT
     !.kernel = IF v = <<name, 1>>
                  THEN Tup(Len(layer.kernel),
                           [i \in 1..Len(layer.kernel) |-> layer.kernel[i] + d])
                  ELSE layer.kernel,
     !.bias   = IF v = <<name, 2>> THEN layer.bias + d ELSE layer.bias]

\* the loss the tape recorded, as a function of the variables
TapedLoss(th, td, dn, x, target) ==
  LET all_error == PredNetOut(PredNet(th, self.stateful, states, x, TRUE))
      prediction_error ==
        Tup(Len(x), [b \in 1..Len(x) |-> Aggregate(td, dn, all_error[b])])
  IN  compute_loss(target, prediction_error)

Sign(a) == IF a > 0 THEN 1 ELSE IF a < 0 THEN -1 ELSE 0

\* the direction in which the loss grows with variable v (a central difference
\* stands for the tensor engine's reverse-mode derivative)
Gradient(v, x, target) ==
  LET at(d) == TapedLoss(Tup(Len(theta), [l \in 1..Len(theta) |->
                            IF v = <<"prednet", l>> THEN theta[l] + d ELSE theta[l]]),
                         Moved(timeDense, "timeDense", v, d),
                         Moved(dense, "dense", v, d), x, target)
  IN  Sign(at(1) - at(-1))

\* gradients = tape.gradient(loss, self.trainable_variables)
TrainGradient ==
  /\ pc = "train_gradient"
  /\ loc' = [loc EXCEPT !.gradients =
               [v \in trainable_variables |-> Gradient(v, loc.x, loc.target)]]
  /\ pc' = "train_apply_gradients"
  /\ UNCHANGED <<self, theta, timeDense, dense, states, metrics, ret>>

\* parameters stay within ParamVals
ClampParam(v) == IF v \in ParamVals THEN v ELSE IF v < 0 THEN 0 ELSE 1

\* the layer after the optimizer moved those of its variables that got a gradient
Applied(layer, name, g) ==
  [layer EXCEPT
     !.kernel = IF <<name, 1>> \in DOMAIN g
                  THEN [i \in 1..Len(layer.kernel) |-> layer.kernel[i] - g[<<name, 1>>]]
                  ELSE layer.kernel,
     !.bias   = IF <<name, 2>> \in DOMAIN g THEN layer.bias - g[<<name, 2>>]
                                             ELSE layer.bias]

\* self.optimizer.apply_gradients(zip(gradients, self.trainable_variables))
TrainApplyGradients ==
  /\ pc = "train_apply_gradients"
  /\ theta' = [l \in 1..Len(theta) |->
                 IF <<"prednet", l>> \in DOMAIN loc.gradients
                   THEN ClampParam(theta[l] - loc.gradients[<<"prednet", l>>])
                   ELSE theta[l]]
  /\ timeDense' = Applied(timeDense, "timeDense", loc.gradients)
  /\ dense' = Applied(dense, "dense", loc.gradients)
  /\ pc' = "train_update_metrics"
  /\ UNCHANGED <<self, states, metrics, loc, ret>>

\* for metric in self.metrics: update_state(loss) / update_state(target, prediction_error)
TrainUpdateMetrics ==
  /\ pc = "train_update_metrics"
  /\ metrics' = [n \in DOMAIN metrics |->
                   IF n = "loss"
                     THEN UpdateState(metrics[n], loc.loss)
                     ELSE UpdateState(metrics[n],
                                      MeanAbsError(loc.target, loc.prediction_error))]
  /\ loc' = [loc EXCEPT !.updated =
               [n \in DOMAIN metrics |->
                  IF n = "loss"
                    THEN Append(loc.updated[n], <<loc.loss>>)
                    ELSE Append(loc.updated[n], <<loc.target, loc.prediction_error>>)]]
  /\ pc' = "train_return"
  /\ UNCHANGED <<self, theta, timeDense, dense, states, ret>>

\* return {m.name: m.result() for m in self.metrics}
TrainReturn ==
  /\ pc = "train_return"
  /\ ret' = [kind |-> "return", op |-> "train_step",
             value |-> [n \in DOMAIN metrics |-> Result(metrics[n])]]
  /\ pc' = "idle"
  /\ loc' = NoLocals
  /\ UNCHANGED <<self, theta, timeDense, dense, states, metrics>>

train_step ==
  \/ TrainForward
  \/ TrainTimeDense
  \/ TrainFlatten
  \/ TrainDense
  \/ TrainComputeLoss
  \/ TrainGradient
  \/ TrainApplyGradients
  \/ TrainUpdateMetrics
  \/ TrainReturn

\* ---------------------------------------------------------------- test_step
\* the names test_step binds: its parameters, its assignments, its loop variable
TestStepLocals ==
  {"self", "data", "x_val", "target_val", "all_error_val", "time_error",
   "flattened", "prediction_error_val", "metric"}

\* the names the module binds: its imports and its class
ModuleGlobals == {"tf", "os", "np", "models", "PredNetModel", "PredNet", "PredNet_Cell"}

\* reading a name that neither scope binds raises NameError
Bound(name) == name \in TestStepLocals \cup ModuleGlobals

\* variant: the evaluation forward pass in prediction mode (training = False)
TestForwardInference ==
  /\ pc = "idle"
  /\ \E x \in Batches(TimeSteps) : \E target \in Targets(Len(x)) :
       LET r == PredNet(theta, self.stateful, states, x, FALSE)
       IN  /\ states' = KeptStates(self.stateful, states, r)
           /\ loc' = [Entered("test_step", x, target) EXCEPT
                        !.all_error = PredNetOut(r)]
  /\ pc' = "test_timeDense"
  /\ ret' = NoReturn
  /\ UNCHANGED <<self, theta, timeDense, dense, metrics>>

\* x_val, target_val = data; all_error_val = self(x_val, training = True)
TestForward ==
  /\ pc = "idle"
  /\ \E x \in Batches(TimeSteps) : \E target \in Targets(Len(x)) :
       LET r == PredNet(theta, self.stateful, states, x, TRUE)
       IN  /\ states' = KeptStates(self.stateful, states, r)
           /\ loc' = [Entered("test_step", x, target) EXCEPT
                        !.all_error = PredNetOut(r)]
  /\ pc' = "test_timeDense"
  /\ ret' = NoReturn
  /\ UNCHANGED <<self, theta, timeDense, dense, metrics>>

\* time_error = self.timeDense(all_error_val)
TestTimeDense ==
  /\ pc = "test_timeDense"
  /\ loc' = [loc EXCEPT !.time_error =
               [b \in 1..Len(loc.all_error) |-> TimeDenseCall(timeDense, loc.all_error[b])]]
  /\ pc' = "test_flatten"
  /\ UNCHANGED <<self, theta, timeDense, dense, states, metrics, ret>>

\* flattened = self.flatten(time_error)
TestFlatten ==
  /\ pc = "test_flatten"
  /\ loc' = [loc EXCEPT !.flattened =
               [b \in 1..Len(loc.time_error) |-> FlattenCall(loc.time_error[b])]]
  /\ pc' = "test_dense"
  /\ UNCHANGED <<self, theta, timeDense, dense, states, metrics, ret>>

\* prediction_error_val = self.dense(flattened)
TestDense ==
  /\ pc = "test_dense"
  /\ loc' = [loc EXCEPT !.prediction_error =
               [b \in 1..Len(loc.flattened) |-> DenseCall(dense, loc.flattened[b])]]
  /\ pc' = "test_compute_loss"
  /\ UNCHANGED <<self, theta, timeDense, dense, states, metrics, ret>>

\* variant: an evaluation step that also moves the parameters
TestComputeLossUpdating ==
  /\ pc = "test_compute_loss"
  /\ loc' = [loc EXCEPT !.loss = compute_loss(loc.target, loc.prediction_error)]
  /\ theta' = [l \in 1..Len(theta) |-> ClampParam(theta[l] + 1)]
  /\ pc' = "test_update_metrics"
  /\ UNCHANGED <<self, timeDense, dense, states, metrics, ret>>

\* self.compute_loss(y=target_val, y_pred = prediction_error_val): the value is dropped
TestComputeLoss ==
  /\ pc = "test_compute_loss"
  /\ loc' = [loc EXCEPT !.loss = compute_loss(loc.target, loc.prediction_error)]
  /\ pc' = "test_update_metrics"
  /\ UNCHANGED <<self, theta, timeDense, dense, states, metrics, ret>>

\* for metric in self.metrics: if metric.name != "loss": metric.update_state(y, y_pred)
TestUpdateMetrics ==
  /\ pc = "test_update_metrics"
  /\ IF \E n \in DOMAIN metrics : n /= "loss" /\ ~(Bound("y") /\ Bound("y_pred"))
       THEN /\ ret' = [kind |-> "raise", op |-> "test_step", error |-> "NameError"]
            /\ pc' = "idle"
            /\ loc' = NoLocals
            /\ UNCHANGED metrics
       ELSE /\ metrics' = [n \in DOMAIN metrics |->
                             IF n /= "loss"
                               THEN UpdateState(metrics[n],
                                      MeanAbsError(loc.target, loc.prediction_error))
                               ELSE metrics[n]]
            /\ loc' = [loc EXCEPT !.updated =
                         [n \in DOMAIN metrics |->
                            IF n /= "loss"
                              THEN Append(loc.updated[n],
                                          <<loc.target, loc.prediction_error>>)
                              ELSE loc.updated[n]]]
            /\ pc' = "test_return"
            /\ UNCHANGED ret
  /\ UNCHANGED <<self, theta, timeDense, dense, states>>

\* return {m.name: m.result() for m in self.metrics}
TestReturn ==
  /\ pc = "test_return"
  /\ ret' = [kind |-> "return", op |-> "test_step",
             value |-> [n \in DOMAIN metrics |-> Result(metrics[n])]]
  /\ pc' = "idle"
  /\ loc' = NoLocals
  /\ UNCHANGED <<self, theta, timeDense, dense, states, metrics>>

test_step ==
  \/ TestForward
  \/ TestTimeDense
  \/ TestFlatten
  \/ TestDense
  \/ TestComputeLoss
  \/ TestUpdateMetrics
  \/ TestReturn

\* ---------------------------------------------------------------- the model in use
\* the metrics of a compiled model: the loss tracker, with or without a secondary one
MetricSets == {{"loss"}, {"loss", "mae"}}

Uniform(n, v) == [i \in 1..n |-> v]

\* the layer weightings in use: every layer, or the bottom layer only
LayerWeightings(L) == {Uniform(L, 1), [l \in 1..L |-> IF l = 1 THEN 1 ELSE 0]}

\* the time weightings in use: every timestep, or every timestep but the first
TimeWeightings(T) == {Uniform(T, 1), [t \in 1..T |-> IF t = 1 THEN 0 ELSE 1]}

\* a model built from five sequences of one length L, L layer weights and T time
\* weights, freshly initialised and compiled
Init ==
  \E L \in 1..MaxLayers, T \in 1..MaxTime :
    \E llw \in LayerWeightings(L), tlw \in TimeWeightings(T),
       th \in SeqsOf(ParamVals, L), names \in MetricSets :
      /\ self = InitAttrs(Uniform(L, 1), Uniform(L, 1), Uniform(L, 3), Uniform(L, 3),
                          Uniform(L, 3), llw, tlw)
      /\ theta = th
      /\ timeDense = InitTimeDense(llw)
      /\ dense = InitDense(tlw)
      /\ states = <<>>
      /\ metrics = [n \in names |-> [total |-> 0, count |-> 0]]
      /\ pc = "idle"
      /\ loc = NoLocals
      /\ ret = NoReturn

Next == call \/ train_step \/ test_step

Spec == Init /\ [][Next]_vars

\* ---------------------------------------------------------------- the aggregator alone
\* error outputs of one example: (timesteps, layers)
ErrorOutputs(T, L) == SeqsOf(SeqsOf(ErrVals, L), T)

Opposite(e) == Tup(Len(e), [t \in 1..Len(e) |->
                              Tup(Len(e[t]), [l \in 1..Len(e[t]) |-> 1 - e[t][l]])])

\* error batches: one example, or an example and its opposite
ErrorBatches(T, L) ==
  {<<e>> : e \in ErrorOutputs(T, L)} \cup {<<e, Opposite(e)>> : e \in ErrorOutputs(T, L)}

LayerWeightVals == {0, 1, 2}

\* a training or evaluation step whose forward pass has just returned an arbitrary
\* error output, in a model with arbitrary loss weights
InitLoss ==
  \E L \in 1..MaxLayers, T \in 1..MaxTime :
    \E llw \in SeqsOf(LayerWeightVals, L), tlw \in SeqsOf(WeightVals, T),
       E \in ErrorBatches(T, L), op \in {"train_step", "test_step"} :
      /\ self = InitAttrs(Uniform(L, 1), Uniform(L, 1), Uniform(L, 3), Uniform(L, 3),
                          Uniform(L, 3), llw, tlw)
      /\ theta = Uniform(L, 0)
      /\ timeDense = InitTimeDense(llw)
      /\ dense = InitDense(tlw)
      /\ states = <<>>
      /\ metrics = [n \in {"loss"} |-> [total |-> 0, count |-> 0]]
      /\ pc = IF op = "train_step" THEN "train_timeDense" ELSE "test_timeDense"
      /\ loc = [op |-> op, x |-> Uniform(Len(E), Uniform(T, 0)),
                target |-> Uniform(Len(E), 0), theta0 |-> Uniform(L, 0),
                all_error |-> E, time_error |-> <<>>, flattened |-> <<>>,
                prediction_error |-> <<>>, loss |-> -1, gradients |-> <<>>,
                updated |-> [n \in {"loss"} |-> <<>>]]
      /\ ret = NoReturn

NextLoss ==
  \/ TrainTimeDense
  \/ TrainFlatten
  \/ TrainDense
  \/ TestTimeDense
  \/ TestFlatten
  \/ TestDense

SpecLoss == InitLoss /\ [][NextLoss]_vars

\* ---------------------------------------------------------------- properties
Constructed == pc /= "new"

AfterDense == pc \in {"train_compute_loss", "test_compute_loss"}

InStep == pc \notin {"new", "idle", "call_return"}

AfterForward == pc \in {"train_timeDense", "test_timeDense"}

\* the forward pass of a call that starts from the all-zero state
FromZero(th, x, training) ==
  Tup(Len(x), [b \in 1..Len(x) |-> Unroll(th, ZeroState(Len(th)), x[b], training).out])

\* C1: constructing the model validates that the five hierarchy sequences and
\* layer_loss_weights all have one length L: no model exists whose sequences
\* differ in length, and the number of cells built equals every sequence's length.
C1_ConstructionValidatesLengths ==
  Constructed =>
    LET L == Len(self.stack_sizes)
    IN  /\ Len(self.R_stack_sizes) = L
        /\ Len(self.A_filt_sizes) = L
        /\ Len(self.Ahat_filt_sizes) = L
        /\ Len(self.R_filt_sizes) = L
        /\ Len(self.layer_loss_weights) = L
        /\ Len(self.cells) = L

\* C2: for every batch and every set of metrics, test_step completes without
\* raising and returns a mapping with exactly one entry per metric name, the key
\* set train_step returns.
C2_TestStepReturnsMetricMapping ==
  (ret.kind /= "none" /\ ret.op = "test_step") =>
    (ret.kind = "return" /\ DOMAIN ret.value = DOMAIN metrics)

\* C3: the trainable parameters change only in a training step's apply_gradients:
\* every other statement of train_step, and every statement of call and test_step,
\* leaves them as they are.
C3_ParametersChangeOnlyInUpdate ==
  [][theta' /= theta => (pc = "train_apply_gradients" /\ pc' = "train_update_metrics")]_vars

C3_Witness ==
  /\ pc = "train_update_metrics"
  /\ theta /= loc.theta0

\* C4: in every state after construction the kernel of timeDense is the
\* layer_loss_weights given at construction, the kernel of dense is the
\* time_loss_weights, both biases are zero, and none of the four is among the
\* variables that receive gradient updates.
C4_LossWeightsAreConstants ==
  /\ timeDense.kernel = self.layer_loss_weights
  /\ timeDense.bias = 0
  /\ dense.kernel = self.time_loss_weights
  /\ dense.bias = 0
  /\ trainable_variables \cap
       {<<"timeDense", 1>>, <<"timeDense", 2>>, <<"dense", 1>>, <<"dense", 2>>} = {}

C4_Witness ==
  /\ pc = "train_return"
  /\ theta /= loc.theta0
  /\ metrics["loss"].count = 2
  /\ loc.loss > 0

RECURSIVE SumOver(_, _)
SumOver(f, S) ==
  IF S = {} THEN 0
            ELSE LET i == CHOOSE j \in S : TRUE IN f[i] + SumOver(f, S \ {i})

\* sum over t of time_loss_weights[t] * (sum over l of layer_loss_weights[l] * e[t][l])
WeightedError(e) ==
  SumOver([t \in 1..Len(e) |->
             self.time_loss_weights[t]
               * SumOver([l \in 1..Len(e[t]) |-> self.layer_loss_weights[l] * e[t][l]],
                         1..Len(e[t]))],
          1..Len(e))

AllZero(e) == \A t \in 1..Len(e) : \A l \in 1..Len(e[t]) : e[t][l] = 0

\* C5: the aggregated prediction error of train_step and test_step is one scalar
\* per batch element, the sum over t of time_loss_weights[t] times the sum over l of
\* layer_loss_weights[l] * E[b,t,l], with no bias and no normalisation; an all-zero
\* error output aggregates to exactly 0.
C5_AggregatedErrorIsWeightedSum ==
  AfterDense =>
    /\ Len(loc.prediction_error) = Len(loc.all_error)
    /\ \A b \in 1..Len(loc.all_error) :
         /\ loc.prediction_error[b] = <<WeightedError(loc.all_error[b])>>
         /\ AllZero(loc.all_error[b]) => loc.prediction_error[b] = <<0>>

C5_Witness ==
  /\ pc = "test_compute_loss"
  /\ Len(loc.all_error) = 2
  /\ loc.prediction_error[1] = <<2>>
  /\ loc.prediction_error[2] = <<1>>
  /\ self.layer_loss_weights = <<2, 1>>
  /\ self.time_loss_weights = <<0, 1>>

\* C6: for the same parameters and batch, test_step computes the error-mode forward
\* output, the aggregated prediction error and the loss that train_step computes
\* before its update, and test_step computes no gradient and updates no parameter.
C6_TestStepComputesTrainStepLoss ==
  /\ AfterForward => loc.all_error = FromZero(theta, loc.x, TRUE)
  /\ pc \in {"train_compute_loss", "test_compute_loss"} =>
        \A b \in 1..Len(loc.x) :
          loc.prediction_error[b] = Aggregate(timeDense, dense, loc.all_error[b])
  /\ pc \in {"train_gradient", "test_update_metrics"} =>
        loc.loss = TapedLoss(theta, timeDense, dense, loc.x, loc.target)
  /\ (InStep /\ loc.op = "test_step") => (theta = loc.theta0 /\ loc.gradients = <<>>)

C6_Witness ==
  /\ pc = "test_update_metrics"
  /\ loc.loss > 0
  /\ \E l \in 1..Len(theta) : theta[l] /= 0
  /\ metrics["loss"].count >= 1

\* C7: in every training step and every evaluation step each metric is updated
\* once with the step's values (the loss for the loss metric, the step's target and
\* aggregated prediction error for every other metric) before the mapping is
\* returned, and the step does return it.
C7_EveryMetricUpdatedOncePerStep ==
  /\ pc \in {"train_return", "test_return"} =>
        \A n \in DOMAIN metrics :
          loc.updated[n] = IF n = "loss" THEN <<(<<loc.loss>>)>>
                                         ELSE <<(<<loc.target, loc.prediction_error>>)>>
  /\ ret.kind /= "raise"

\* C8: no recurrent state is kept between calls: every forward pass, direct or
\* inside train_step or test_step, gives the output of a pass that starts from the
\* all-zero state with the parameters of that moment, whatever ran before.
C8_EveryCallStartsFromZeroState ==
  /\ Constructed => states = <<>>
  /\ pc = "call_return" => loc.x = FromZero(loc.theta0, loc.input, loc.training)
  /\ AfterForward =>
        (loc.theta0 = theta /\ loc.all_error = FromZero(loc.theta0, loc.x, TRUE))

C8_Witness ==
  /\ pc = "call_return"
  /\ metrics["loss"].count >= 1
  /\ loc.training
  /\ \E b \in 1..Len(loc.x) : \E t \in 1..Len(loc.x[b]) : SumSeq(loc.x[b][t]) > 0
  /\ \E b \in 1..Len(loc.x) : \E t \in 1..Len(loc.x[b]) : SumSeq(loc.x[b][t]) = 0

\* the statements of train_step after the forward pass, in program order
TrainOrder ==
  <<"train_timeDense", "train_flatten", "train_dense", "train_compute_loss",
    "train_gradient", "train_apply_gradients", "train_update_metrics", "train_return">>

\* C9: a training step runs forward pass, layer-weighted reduction, flatten,
\* time-weighted reduction, loss, gradient, one optimizer update, metric updates and
\* return in this order, none skipped or repeated; the loss it records is the one
\* computed from the parameters before its update; and a forward pass starts only
\* between steps, reading the parameters as the last update left them.
C9_TrainStepPhaseOrder ==
  [][/\ \A i \in 1..(Len(TrainOrder) - 1) : pc = TrainOrder[i] => pc' = TrainOrder[i + 1]
     /\ pc = "train_return" => pc' = "idle"
     /\ pc' = "train_timeDense" =>
           /\ pc = "idle"
           /\ loc'.theta0 = theta
           /\ loc'.all_error = FromZero(theta, loc'.x, TRUE)
     /\ pc = "train_update_metrics" =>
           /\ loc.loss = TapedLoss(loc.theta0, timeDense, dense, loc.x, loc.target)
           /\ loc'.updated["loss"] = <<(<<loc.loss>>)>>
     /\ (loc.op = "train_step" /\ theta' /= theta) => pc = "train_apply_gradients"
    ]_vars

C9_Witness ==
  /\ pc = "train_return"
  /\ metrics["loss"].count = 2
  /\ theta /= loc.theta0
  /\ loc.loss /= TapedLoss(theta, timeDense, dense, loc.x, loc.target)

Perms(n) == {p \in [1..n -> 1..n] : \A i, j \in 1..n : p[i] = p[j] => i = j}

\* the layers of an error output, and of a weight vector, reordered by p
PermuteErrors(e, p) == [t \in 1..Len(e) |-> [l \in 1..Len(e[t]) |-> e[t][p[l]]]]

PermuteWeights(w, p) == [l \in 1..Len(w) |-> w[p[l]]]

\* the aggregate of e in a model constructed with layer weights w
AggregateWith(w, e) == Aggregate(InitTimeDense(w), dense, e)

LayerPerms == Perms(Len(self.layer_loss_weights))

\* C10 (as amended): reordering the layers of the errors and of layer_loss_weights
\* by one permutation leaves every example's scalar unchanged (a reordering of one
\* of the two alone may change it, as the witness shows, but need not).
C10_ConsistentPermutationInvariant ==
  AfterDense =>
    \A p \in LayerPerms : \A b \in 1..Len(loc.all_error) :
      AggregateWith(PermuteWeights(self.layer_loss_weights, p),
                    PermuteErrors(loc.all_error[b], p)) = loc.prediction_error[b]

\* a one-sided reordering that changes the scalar
C10_Witness ==
  /\ AfterDense
  /\ \E p \in LayerPerms :
       /\ AggregateWith(self.layer_loss_weights, PermuteErrors(loc.all_error[1], p))
            /= loc.prediction_error[1]
       /\ AggregateWith(PermuteWeights(self.layer_loss_weights, p), loc.all_error[1])
            /= loc.prediction_error[1]
       /\ AggregateWith(PermuteWeights(self.layer_loss_weights, p),
                        PermuteErrors(loc.all_error[1], p)) = loc.prediction_error[1]

\* C10 (as claimed): a consistent reordering leaves the scalar unchanged, and every
\* reordering that moves a layer, applied to the errors alone or to the weights
\* alone, changes it.
C10_OneSidedPermutationAlwaysChanges ==
  AfterDense =>
    \A p \in LayerPerms : \A b \in 1..Len(loc.all_error) :
      /\ AggregateWith(PermuteWeights(self.layer_loss_weights, p),
                       PermuteErrors(loc.all_error[b], p)) = loc.prediction_error[b]
      /\ (\E l \in DOMAIN p : p[l] /= l) =>
            /\ AggregateWith(self.layer_loss_weights, PermuteErrors(loc.all_error[b], p))
                 /= loc.prediction_error[b]
            /\ AggregateWith(PermuteWeights(self.layer_loss_weights, p), loc.all_error[b])
                 /= loc.prediction_error[b]

====
